---------------------------- MODULE Spec2Model ----------------------------
(***************************************************************************)
(* Model of sellers-ads-metrics: the URL classifier                        *)
(* (src/classification/url_classifier.py), the site mapper's confidence    *)
(* (src/discovery/site_mapper.py) and the ad analyzer                      *)
(* (src/classification/ad_analyzer.py).                                    *)
(*                                                                         *)
(* Python strings are sequences of one-character strings, so that lower(), *)
(* strip(), `in`, replace(), split() and the URL regular expression are    *)
(* computed character by character.  A Python value that may be missing    *)
(* from a dict, None, a str, a dict or a list is a record tagged by k.     *)
(***************************************************************************)
EXTENDS Integers, Sequences, FiniteSets, TLC

VARIABLES
    ad,               \* classify_ad / _extract_urls_from_ad argument `ad`
    converty_domain,  \* classify_ad argument `converty_domain`
    url,              \* _extract_domain argument `url`
    pc,               \* position of the running call
    urls,             \* outcome of _extract_urls_from_ad(ad)
    domain,           \* outcome of _extract_domain(url)
    result,           \* outcome of classify_ad(ad, converty_domain)
    page_ads,         \* _calculate_confidence argument `page_ads`
    total_ads,        \* _calculate_confidence argument `total_ads`
    confidence,       \* outcome of _calculate_confidence(page_ads, total_ads)
    mappings,         \* map_client_sites: `mappings`
    todo,             \* analyze_client: (site, page) entries still to analyze
    n_entries,        \* number of fb_pages entries of the mapping artifact
    all_page_ads,     \* _analyze_page: ads returned for the page
    ad_idx,           \* _analyze_page: number of loop iterations done
    classified_ads,   \* _analyze_page: `classified_ads`
    converty_count,   \* _analyze_page: `converty_count`
    concurrent_count, \* _analyze_page: `concurrent_count`
    unknown_count,    \* _analyze_page: `unknown_count`
    competitors,      \* _analyze_page: `competitors` dict, in insertion order
    page_analyses,    \* analyze_client: `page_analyses`
    report            \* analyze_client: `report`

vars == <<ad, converty_domain, url, pc, urls, domain, result,
          page_ads, total_ads, confidence, mappings,
          todo, n_entries, all_page_ads, ad_idx, classified_ads,
          converty_count, concurrent_count, unknown_count, competitors,
          page_analyses, report>>

classifyVars == <<ad, converty_domain, url, urls, domain, result>>
mapperVars == <<page_ads, total_ads, confidence, mappings>>
analyzerVars == <<todo, n_entries, all_page_ads, ad_idx, classified_ads,
                  converty_count, concurrent_count, unknown_count, competitors,
                  page_analyses, report>>

-----------------------------------------------------------------------------
(* Python values *)

None == [k |-> "none"]
Missing == [k |-> "missing"]
Str(s) == [k |-> "str", v |-> s]
List(l) == [k |-> "list", v |-> l]
Raised == [k |-> "raise"]

Min(S) == CHOOSE x \in S : \A y \in S : x <= y
Max(S) == CHOOSE x \in S : \A y \in S : x >= y

-----------------------------------------------------------------------------
(* str methods *)

Whitespace == {" ", "\t", "\n"}

UpperAlpha == <<"A","B","C","D","E","F","G","H","I","J","K","L","M","N","O","P","Q","R","S","T","U","V","W","X","Y","Z">>
LowerAlpha == <<"a","b","c","d","e","f","g","h","i","j","k","l","m","n","o","p","q","r","s","t","u","v","w","x","y","z">>

LowerChar(c) ==
    IF \E i \in 1..Len(UpperAlpha) : UpperAlpha[i] = c
    THEN LowerAlpha[CHOOSE i \in 1..Len(UpperAlpha) : UpperAlpha[i] = c]
    ELSE c

\* s.lower()
Lower(s) == [i \in 1..Len(s) |-> LowerChar(s[i])]

\* s.startswith(p)
StartsWith(s, p) == Len(s) >= Len(p) /\ SubSeq(s, 1, Len(p)) = p

\* sub in s
Contains(sub, s) ==
    \E i \in 0..(Len(s) - Len(sub)) : SubSeq(s, i + 1, i + Len(sub)) = sub

\* s.find(c) for a one-character c, 1-based; 0 when absent
Find(s, c) ==
    IF \E i \in 1..Len(s) : s[i] = c
    THEN Min({i \in 1..Len(s) : s[i] = c})
    ELSE 0

\* s.strip()
Strip(s) ==
    LET keep == {i \in 1..Len(s) : s[i] \notin Whitespace}
    IN  IF keep = {} THEN <<>> ELSE SubSeq(s, Min(keep), Max(keep))

\* s.rstrip(chars)
RStrip(s, chars) ==
    LET keep == {i \in 1..Len(s) : s[i] \notin chars}
    IN  IF keep = {} THEN <<>> ELSE SubSeq(s, 1, Max(keep))

RECURSIVE Replace(_, _)
\* s.replace(old, ''): every non-overlapping occurrence, left to right
Replace(s, old) ==
    IF s = <<>> THEN <<>>
    ELSE IF StartsWith(s, old) THEN Replace(SubSeq(s, Len(old) + 1, Len(s)), old)
    ELSE <<Head(s)>> \o Replace(Tail(s), old)

-----------------------------------------------------------------------------
(* re.findall(r'https?://[^\s<>"]+', text) *)

UrlStop == Whitespace \cup {"<", ">", "\""}

\* length of the match of https?:// at position i, 0 when there is none
SchemeAt(t, i) ==
    IF i + 6 <= Len(t) /\ SubSeq(t, i, i + 6) = <<"h","t","t","p",":","/","/">> THEN 7
    ELSE IF i + 7 <= Len(t) /\ SubSeq(t, i, i + 7) = <<"h","t","t","p","s",":","/","/">> THEN 8
    ELSE 0

\* last position of the greedy run [^\s<>"]+ that starts at j
RunEnd(t, j) == Min({e \in j..Len(t) : t[e] \in UrlStop} \cup {Len(t) + 1}) - 1

RECURSIVE FindAllFrom(_, _)
FindAllFrom(t, i) ==
    IF i > Len(t) THEN <<>>
    ELSE LET n == SchemeAt(t, i)
         IN  IF n > 0 /\ i + n <= Len(t) /\ t[i + n] \notin UrlStop
             THEN <<SubSeq(t, i, RunEnd(t, i + n))>>
                      \o FindAllFrom(t, RunEnd(t, i + n) + 1)
             ELSE FindAllFrom(t, i + 1)

FindAll(t) == FindAllFrom(t, 1)

-----------------------------------------------------------------------------
(* URLClassifier *)

IGNORED_DOMAINS ==
    << <<"f","a","c","e","b","o","o","k",".","c","o","m">>, <<"i","n","s","t","a","g","r","a","m",".","c","o","m">>, <<"f","b",".","c","o","m">>, <<"f","b",".","m","e">>,
       <<"b","i","t",".","l","y">>, <<"t","i","n","y","u","r","l",".","c","o","m">>, <<"l",".","f","a","c","e","b","o","o","k",".","c","o","m">>, <<"l",".","i","n","s","t","a","g","r","a","m",".","c","o","m">> >>

TrailingPunct == {".", ",", ";", ":", "!", "?", ")"}

\* dict.get(key): the value, None when the key is missing
Get(v) == IF v.k = "missing" THEN None ELSE v

\* Python truthiness of None, a str or a list
Truthy(v) == v.k \in {"str", "list"} /\ v.v # <<>>

\* lines 113-125: the link_url of the snapshot, then of each card
\* precondition: snapshot is a dict and cards a list of dicts
LinkUrls(snapshot) ==
    LET link_url == Get(snapshot.link_url)
        cards == IF snapshot.cards.k = "missing" THEN <<>> ELSE snapshot.cards.v
        cardUrl(i) == Get(cards[i].link_url)
        RECURSIVE fromCards(_)
        fromCards(i) ==
            IF i > Len(cards) THEN <<>>
            ELSE (IF Truthy(cardUrl(i)) THEN <<cardUrl(i).v>> ELSE <<>>)
                     \o fromCards(i + 1)
    IN  (IF Truthy(link_url) THEN <<link_url.v>> ELSE <<>>) \o fromCards(1)

\* lines 127-131
CaptionUrls(snapshot) ==
    LET caption == IF snapshot.caption.k = "missing" THEN Str(<<>>)
                   ELSE snapshot.caption
    IN  IF Truthy(caption) THEN FindAll(caption.v) ELSE <<>>

\* lines 133-142; str(None) is 'None'
BodyUrls(snapshot) ==
    LET body == IF snapshot.body.k = "missing" THEN [k |-> "dict", text |-> Missing]
                ELSE snapshot.body
        body_text ==
            IF body.k = "dict"
            THEN (IF body.text.k = "missing" THEN Str(<<>>) ELSE body.text)
            ELSE IF body.k = "none" THEN Str(<<"N","o","n","e">>)
            ELSE body
    IN  IF Truthy(body_text) THEN FindAll(body_text.v) ELSE <<>>

\* lines 112-142: the list `urls` before cleaning
RawUrls(snapshot) ==
    LinkUrls(snapshot) \o CaptionUrls(snapshot) \o BodyUrls(snapshot)

\* line 149
CleanUrl(u) == RStrip(Strip(u), TrailingPunct)

\* KeepUrl comparing the urls without regard to letter case
KeepUrlIgnoringCase(u, seen) == u # <<>> /\ Lower(u) \notin {Lower(x) : x \in seen}

\* line 150: the test that keeps a cleaned url
KeepUrl(u, seen) == u # <<>> /\ u \notin seen

RECURSIVE UniqueFrom(_, _, _)
\* lines 145-152
UniqueFrom(raw, i, unique_urls) ==
    IF i > Len(raw) THEN unique_urls
    ELSE LET u == CleanUrl(raw[i])
             seen == {unique_urls[j] : j \in 1..Len(unique_urls)}
         IN  IF KeepUrl(u, seen)
             THEN UniqueFrom(raw, i + 1, Append(unique_urls, u))
             ELSE UniqueFrom(raw, i + 1, unique_urls)

\* line 113 and line 116: ad.get('snapshot', {}) is None, and None has no .get
\* line 121 and line 122: snapshot.get('cards', []) is None, and None is not
\* iterable; line 123: a card that is None has no .get
ExtractRaises(a) ==
    \/ a.snapshot.k = "none"
    \/ /\ a.snapshot.k = "dict"
       /\ \/ a.snapshot.cards.k = "none"
          \/ /\ a.snapshot.cards.k = "list"
             /\ \E i \in 1..Len(a.snapshot.cards.v) : a.snapshot.cards.v[i].k = "none"

EmptySnapshot ==
    [k |-> "dict", link_url |-> Missing, cards |-> Missing,
     caption |-> Missing, body |-> Missing]

\* _extract_urls_from_ad
ExtractUrlsFromAd(a) ==
    IF ExtractRaises(a) THEN Raised
    ELSE LET snapshot == IF a.snapshot.k = "missing" THEN EmptySnapshot
                         ELSE a.snapshot
         IN  List(UniqueFrom(RawUrls(snapshot), 1, <<>>))

\* line 168
HasScheme(u) == StartsWith(u, <<"h","t","t","p",":","/","/">>) \/ StartsWith(u, <<"h","t","t","p","s",":","/","/">>)

\* lines 168-169
WithScheme(u) == IF HasScheme(u) THEN u ELSE <<"h","t","t","p",":","/","/">> \o u

\* urlparse(u).netloc for u = scheme://...: the text after the first "//" up
\* to the first of / ? #
Netloc(u) ==
    LET start == Find(u, ":") + 3
        stops == {i \in start..Len(u) : u[i] \in {"/", "?", "#"}}
        stop == IF stops = {} THEN Len(u) + 1 ELSE Min(stops)
    IN  SubSeq(u, start, stop - 1)

\* urlsplit raises ValueError("Invalid IPv6 URL") on an unmatched bracket
UrlparseRaises(u) ==
    LET n == Netloc(u)
    IN  (Find(n, "[") > 0) # (Find(n, "]") > 0)

\* line 179
StripWww(d) == Replace(d, <<"w","w","w",".">>)

\* lines 182-183
StripPort(d) == IF Find(d, ":") > 0 THEN SubSeq(d, 1, Find(d, ":") - 1) ELSE d

\* _extract_domain
ExtractDomain(u) ==
    LET full == WithScheme(u)
    IN  IF UrlparseRaises(full) THEN None
        ELSE IF Netloc(full) = <<>> THEN None
        ELSE LET d == StripPort(StripWww(Lower(Netloc(full))))
             IN  IF d # <<>> THEN Str(d) ELSE None

\* IgnoredBy as an exact match of the ignore-list entry
IgnoredByExact(ignored, d) == ignored = d

\* line 196
IgnoredBy(ignored, d) == Contains(ignored, d)

\* _is_ignored_domain
IsIgnoredDomain(d) ==
    \E i \in 1..Len(IGNORED_DOMAINS) : IgnoredBy(IGNORED_DOMAINS[i], Lower(d))

\* IsConverty without lower-casing either side
IsConvertyCaseSensitive(u, dom) == Contains(dom, u)

\* line 65
IsConverty(u, dom) == Contains(Lower(dom), Lower(u))

\* lines 52-58
NoUrlResult ==
    [classification |-> "UNKNOWN", confidence |-> "low",
     destination_url |-> None, competitor_domain |-> None]

\* ConvertyResult reporting the url's host as competitor_domain
ConvertyResultWithDomain(u) ==
    [classification |-> "CONVERTY", confidence |-> "high",
     destination_url |-> Str(u), competitor_domain |-> Str(Lower(u))]

\* lines 66-72
ConvertyResult(u) ==
    [classification |-> "CONVERTY", confidence |-> "high",
     destination_url |-> Str(u), competitor_domain |-> None]

\* lines 85-91
ConcurrentResult(u, d) ==
    [classification |-> "CONCURRENT", confidence |-> "high",
     destination_url |-> Str(u), competitor_domain |-> d]

\* NoCommercialResult reporting the last url scanned instead of the first
NoCommercialResultLastUrl(us) ==
    [classification |-> "UNKNOWN", confidence |-> "medium",
     destination_url |-> IF us # <<>> THEN Str(us[Len(us)]) ELSE None,
     competitor_domain |-> None]

\* lines 94-100
NoCommercialResult(us) ==
    [classification |-> "UNKNOWN", confidence |-> "medium",
     destination_url |-> IF us # <<>> THEN Str(us[1]) ELSE None,
     competitor_domain |-> None]

RECURSIVE ClassifyFrom(_, _, _)
\* lines 61-100: the loop over urls, from the i-th url on
ClassifyFrom(us, i, dom) ==
    IF i > Len(us) THEN NoCommercialResult(us)
    ELSE IF IsConverty(us[i], dom) THEN ConvertyResult(us[i])
    ELSE LET d == ExtractDomain(us[i])
         IN  IF ~Truthy(d) THEN ClassifyFrom(us, i + 1, dom)
             ELSE IF IsIgnoredDomain(d.v) THEN ClassifyFrom(us, i + 1, dom)
             ELSE ConcurrentResult(us[i], d)

\* classify_ad; an exception of _extract_urls_from_ad propagates
ClassifyAd(a, dom) ==
    LET extracted == ExtractUrlsFromAd(a)
    IN  IF extracted = Raised THEN Raised
        ELSE IF extracted.v = <<>> THEN NoUrlResult
        ELSE ClassifyFrom(extracted.v, 1, dom)

-----------------------------------------------------------------------------
(* Inputs of the classifier *)

MaxCards == 2

TBSHOPP == <<"t","b","s","h","o","p","p",".","c","o","m">>

OwnedDomains == {TBSHOPP, <<"R","i","v","a","l",".","i","o">>}

UrlSelf == <<"h","t","t","p","s",":","/","/","t","b","s","h","o","p","p",".","c","o","m","/","b","u","y">>
UrlRival == <<"h","t","t","p","s",":","/","/","r","i","v","a","l","s","h","o","p",".","i","o","/","x">>
UrlRedirect == <<"h","t","t","p","s",":","/","/","l",".","f","a","c","e","b","o","o","k",".","c","o","m","/","l",".","p","h","p">>
UrlInnerWww == <<"h","t","t","p","s",":","/","/","s","h","o","p","w","w","w",".","r","i","v","a","l",".","i","o","/","x">>

UrlStrings ==
    { UrlSelf, UrlRival, UrlRedirect, UrlInnerWww,
      <<"H","T","T","P","S",":","/","/","T","B","S","H","O","P","P",".","C","O","M","/","x">>,
      <<"h","t","t","p",":","/","/","w","w","w",".","R","i","v","a","l",".","i","o",":","8","0","8","0","/","p">>,
      <<"h","t","t","p","s",":","/","/","m",".","F","a","c","e","b","o","o","k",".","c","o","m","/","x">>,
      <<"r","i","v","a","l",".","i","o","/","p">>,
      <<"h","t","t","p",":","/","/","[","b","a","d">>,
      <<"h","t","t","p",":","/","/","/","x">>,
      <<"h","t","t","p","s",":","/","/","r","i","v","a","l",".","i","o","/","t","b","s","h","o","p","p",".","c","o","m">>,
      <<" ","h","t","t","p","s",":","/","/","r","i","v","a","l",".","i","o","/","x",")","."," ">>,
      <<" ",".",".",".">>,
      <<"h","t","t","p","s",":","/","/","r","i","v","a","l",".","i","o"," ",".">> }

LinkUrlValues == {Missing, None, Str(<<>>)} \cup {Str(u) : u \in UrlStrings}

Card(link) == [k |-> "dict", link_url |-> link]

CardValues == {Card(None), Card(Str(UrlRival)), Card(Str(UrlRedirect))}

SeqsUpTo(S, n) == UNION {[1..m -> S] : m \in 0..n}

CardsValues == {Missing, None} \cup {List(c) : c \in SeqsUpTo(CardValues, MaxCards)}

CaptionValues ==
    { Missing, None,
      Str(<<"B","u","y"," ","h","t","t","p","s",":","/","/","r","i","v","a","l",".","i","o","/","x",","," ","n","o","w">>),
      Str(<<"h","t","t","p","s",":","/","/","R","i","v","a","l",".","i","o","/","x"," ","h","t","t","p","s",":","/","/","r","i","v","a","l",".","i","o","/","x">>) }

BodyValues ==
    { Missing, None,
      Str(<<"s","e","e"," ","h","t","t","p",":","/","/","t","b","s","h","o","p","p",".","c","o","m","!"," ","<","h","t","t","p",":","/","/","x",">">>),
      [k |-> "dict", text |-> Missing],
      [k |-> "dict", text |-> None],
      [k |-> "dict", text |-> Str(<<"h","t","t","p","s",":","/","/","r","i","v","a","l","s","h","o","p",".","i","o","/","x"," ","h","t","t","p",":","/","/"," ","n","o">>)] }

Snapshots ==
    {Missing, None} \cup
    [k : {"dict"}, link_url : LinkUrlValues, cards : CardsValues,
     caption : CaptionValues, body : BodyValues]

Ads == [snapshot : Snapshots]

NoAd == [snapshot |-> Missing]

\* the candidate urls _extract_domain is called on
CandidateUrls ==
    ({CleanUrl(u) : u \in UrlStrings} \cup
     UNION {{CleanUrl(t[i]) : i \in 1..Len(t)} :
            t \in {FindAll(c.v) : c \in {x \in CaptionValues : x.k = "str"}}})
    \ {<<>>}

-----------------------------------------------------------------------------
(* The classifier's calls *)

MapperIdle ==
    page_ads = 0 /\ total_ads = 0 /\ confidence = None /\ mappings = <<>>

AnalyzerIdle ==
    /\ todo = <<>> /\ n_entries = 0 /\ all_page_ads = <<>> /\ ad_idx = 0
    /\ classified_ads = <<>> /\ converty_count = 0 /\ concurrent_count = 0
    /\ unknown_count = 0 /\ competitors = <<>> /\ page_analyses = <<>>
    /\ report = None

InitClassify ==
    /\ \/ pc = "ad" /\ ad \in Ads /\ converty_domain \in OwnedDomains /\ url = <<>>
       \/ pc = "url" /\ ad = NoAd /\ converty_domain = TBSHOPP
            /\ url \in CandidateUrls
    /\ urls = None /\ domain = None /\ result = None
    /\ MapperIdle /\ AnalyzerIdle

CallExtractUrls ==
    /\ pc = "ad"
    /\ urls' = ExtractUrlsFromAd(ad)
    /\ pc' = "extracted"
    /\ UNCHANGED <<ad, converty_domain, url, domain, result, mapperVars, analyzerVars>>

CallClassifyAd ==
    /\ pc = "ad"
    /\ urls' = ExtractUrlsFromAd(ad)
    /\ result' = ClassifyAd(ad, converty_domain)
    /\ pc' = "classified"
    /\ UNCHANGED <<ad, converty_domain, url, domain, mapperVars, analyzerVars>>

CallExtractDomain ==
    /\ pc = "url"
    /\ domain' = ExtractDomain(url)
    /\ pc' = "domain"
    /\ UNCHANGED <<ad, converty_domain, url, urls, result, mapperVars, analyzerVars>>

NextClassify == CallExtractUrls \/ CallClassifyAd \/ CallExtractDomain

SpecClassify == InitClassify /\ [][NextClassify]_vars

-----------------------------------------------------------------------------
(* Properties of the classifier *)

Classified == pc = "classified" /\ result # Raised

\* the owned domain occurs in u, letter case disregarded
OwnedIn(u) ==
    \E i \in 0..(Len(u) - Len(converty_domain)) :
        \A j \in 1..Len(converty_domain) :
            LowerChar(u[i + j]) = LowerChar(converty_domain[j])

\* an entry of the ignore-list occurs in the host d, letter case disregarded
OnIgnoreList(d) ==
    \E e \in {IGNORED_DOMAINS[n] : n \in 1..Len(IGNORED_DOMAINS)} :
        \E i \in 0..(Len(d) - Len(e)) :
            \A j \in 1..Len(e) : LowerChar(d[i + j]) = e[j]

\* u has an extractable host that is not on the ignore-list
CommercialHost(u) ==
    ExtractDomain(u) # None /\ ~OnIgnoreList(ExtractDomain(u).v)

Decisive(u) == OwnedIn(u) \/ CommercialHost(u)

DecisiveIdx == {i \in 1..Len(urls.v) : Decisive(urls.v[i])}

\* C1: the first candidate, in extraction order, that contains the owned
\* domain or has an extractable non-ignored host fixes the result: SELF
\* (CONVERTY) / high with that candidate as destination_url when it contains
\* the owned domain, otherwise COMPETITOR (CONCURRENT) / high with that
\* candidate as destination_url and its extracted host as competitor_domain.
C1_FirstDecisiveFixesResult ==
    (Classified /\ DecisiveIdx # {}) =>
        LET u == urls.v[Min(DecisiveIdx)]
        IN  /\ result.confidence = "high"
            /\ result.destination_url = Str(u)
            /\ OwnedIn(u) =>
                   /\ result.classification = "CONVERTY"
                   /\ result.competitor_domain = None
            /\ ~OwnedIn(u) =>
                   /\ result.classification = "CONCURRENT"
                   /\ result.competitor_domain = ExtractDomain(u)

\* a later candidate decides, and it contains the owned domain only when
\* letter case is disregarded
C1_Witness ==
    /\ Classified /\ DecisiveIdx # {}
    /\ Min(DecisiveIdx) > 1
    /\ result.classification = "CONVERTY"
    /\ ~Contains(converty_domain, result.destination_url.v)

\* C2: the result is UNKNOWN exactly when no candidate is decisive: low with
\* no destination_url when there is no candidate at all, medium with the
\* first extracted candidate as destination_url when every candidate was
\* skipped.
C2_UnknownWhenNothingDecides ==
    Classified =>
        /\ result.classification = "UNKNOWN" <=> DecisiveIdx = {}
        /\ urls.v = <<>> =>
               result = [classification |-> "UNKNOWN", confidence |-> "low",
                         destination_url |-> None, competitor_domain |-> None]
        /\ (urls.v # <<>> /\ DecisiveIdx = {}) =>
               result = [classification |-> "UNKNOWN", confidence |-> "medium",
                         destination_url |-> Str(urls.v[1]),
                         competitor_domain |-> None]

\* several candidates, all skipped, the first one reported
C2_Witness ==
    /\ Classified /\ Len(urls.v) >= 2 /\ DecisiveIdx = {}
    /\ result.confidence = "medium"
    /\ result.destination_url = Str(urls.v[1])
    /\ urls.v[1] # urls.v[Len(urls.v)]

\* C3: competitor_domain never matches the ignore-list, and a candidate
\* whose host matches it (and that does not contain the owned domain) is
\* never the one that decides.
C3_IgnoredNeverCompetitor ==
    Classified =>
        /\ result.competitor_domain # None =>
               ~OnIgnoreList(result.competitor_domain.v)
        /\ \A i \in 1..Len(urls.v) :
               ( /\ ~OwnedIn(urls.v[i])
                 /\ ExtractDomain(urls.v[i]) # None
                 /\ OnIgnoreList(ExtractDomain(urls.v[i]).v) )
               => ( result.classification = "UNKNOWN"
                    \/ result.destination_url # Str(urls.v[i]) )

\* the first candidate's host is on the ignore-list only as a substring, and
\* the scan went on to a competitor
C3_Witness ==
    /\ Classified /\ Len(urls.v) >= 2
    /\ ~OwnedIn(urls.v[1])
    /\ ExtractDomain(urls.v[1]) # None
    /\ OnIgnoreList(ExtractDomain(urls.v[1]).v)
    /\ \A n \in 1..Len(IGNORED_DOMAINS) : IGNORED_DOMAINS[n] # ExtractDomain(urls.v[1]).v
    /\ result.classification = "CONCURRENT"

\* C4: competitor_domain is a non-empty string if and only if the
\* classification is COMPETITOR (CONCURRENT), and is absent otherwise.
C4_CompetitorDomainIffConcurrent ==
    Classified =>
        /\ result.competitor_domain.k \in {"none", "str"}
        /\ result.competitor_domain.k = "str" <=> result.classification = "CONCURRENT"
        /\ result.competitor_domain.k = "str" => result.competitor_domain.v # <<>>

\* a SELF result whose destination has a host of its own
C4_Witness ==
    /\ Classified
    /\ result.classification = "CONVERTY"
    /\ CommercialHost(result.destination_url.v)
    /\ result.competitor_domain = None

\* C5: neither classify_ad nor _extract_urls_from_ad raises, whatever
\* fields of the ad are missing or null.
C5_NeverRaises ==
    /\ pc = "classified" => result # Raised
    /\ pc = "extracted" => urls # Raised

FirstNonSpace(s) == Min({i \in 1..Len(s) : s[i] \notin Whitespace} \cup {Len(s) + 1})
LastNonSpace(s) == Max({i \in 1..Len(s) : s[i] \notin Whitespace} \cup {0})

\* s without its surrounding whitespace and, then, without its trailing
\* punctuation
Cleaned(s) ==
    LET lo == FirstNonSpace(s)
        hi == LastNonSpace(s)
        body == {i \in lo..hi : s[i] \notin TrailingPunct}
    IN  IF body = {} THEN <<>> ELSE SubSeq(s, lo, Max(body))

\* the sources of the ad's urls in the fixed order (link_url, the cards'
\* link_url, the matches in caption, the matches in body), each cleaned
CleanedSources ==
    LET src == IF ad.snapshot.k = "missing" THEN <<>>
               ELSE LinkUrls(ad.snapshot) \o CaptionUrls(ad.snapshot)
                        \o BodyUrls(ad.snapshot)
    IN  [j \in 1..Len(src) |-> Cleaned(src[j])]

\* C6: the extracted urls are the cleaned sources, in order of first
\* occurrence over link_url, cards, caption, body; no empty string, no two
\* equal strings, compared exactly.
C6_OrderedExactDedup ==
    (pc \in {"extracted", "classified"} /\ urls # Raised) =>
        LET cl == CleanedSources
            out == urls.v
            first == [i \in 1..Len(out) |->
                         Min({j \in 1..Len(cl) : cl[j] = out[i]} \cup {Len(cl) + 1})]
        IN  /\ {out[i] : i \in 1..Len(out)} = {cl[j] : j \in 1..Len(cl)} \ {<<>>}
            /\ \A i \in 1..Len(out) : out[i] # <<>>
            /\ \A i, j \in 1..Len(out) : i # j => out[i] # out[j]
            /\ \A i, j \in 1..Len(out) : i < j => first[i] < first[j]

\* a duplicate was dropped, two urls that differ only in letter case were
\* both kept, and cleaning changed a source
C6_Witness ==
    /\ pc = "extracted" /\ urls # Raised
    /\ Len(CleanedSources) > Len(urls.v)
    /\ \E i, j \in 1..Len(urls.v) :
           i < j /\ urls.v[i] # urls.v[j] /\ Lower(urls.v[i]) = Lower(urls.v[j])
    /\ \E j \in 1..Len(urls.v) : urls.v[j] \notin
           {RawUrls(ad.snapshot)[n] : n \in 1..Len(RawUrls(ad.snapshot))}

\* d without a leading "www."
WithoutLeadingWww(d) ==
    IF Len(d) >= 4 /\ SubSeq(d, 1, 4) = <<"w","w","w",".">> THEN SubSeq(d, 5, Len(d)) ELSE d

\* C7: the extracted host is the url's host in lower case, with a leading
\* "www." and a port suffix stripped, and otherwise unchanged.
C7_HostOtherwiseUnchanged ==
    (pc = "domain" /\ domain # None) =>
        domain.v = StripPort(WithoutLeadingWww(Lower(Netloc(WithScheme(url)))))

-----------------------------------------------------------------------------
(* SiteMapper *)

MaxSiteAds == 10
MaxSites == 2
MaxPages == 3

\* _calculate_confidence with > where the code compares with >=
CalculateConfidenceStrict(p, t) ==
    IF t = 0 THEN "low"
    ELSE IF 10 * p > 7 * t THEN "high"
    ELSE IF 10 * p > 3 * t THEN "medium"
    ELSE "low"

\* _calculate_confidence.  ratio = page_ads / total_ads is the double nearest
\* to the quotient; for total_ads below 2^49 it is >= the double 0.7 (0.3)
\* exactly when 10 * page_ads >= 7 * total_ads (3 * total_ads).
CalculateConfidence(p, t) ==
    IF t = 0 THEN "low"
    ELSE IF 10 * p >= 7 * t THEN "high"
    ELSE IF 10 * p >= 3 * t THEN "medium"
    ELSE "low"

RECURSIVE SumUpTo(_, _)
SumUpTo(s, n) == IF n = 0 THEN 0 ELSE s[n] + SumUpTo(s, n - 1)

\* sum(s)
SumSeq(s) == SumUpTo(s, Len(s))

\* the ads_count of the pages extract_pages_from_ads can return for n ads,
\* on at most m pages: every ad belongs to one page
PageCounts ==
    [n \in 0..MaxSiteAds, m \in 0..MaxPages |->
        {c \in SeqsUpTo(1..n, m) : SumSeq(c) = n}]

\* lines 58-62
WithConfidence(counts, n) ==
    [i \in 1..Len(counts) |->
        [ads_count |-> counts[i], confidence |-> CalculateConfidence(counts[i], n)]]

PagesSoFar ==
    SumSeq([i \in 1..Len(mappings) |-> Len(mappings[i].fb_pages)])

InitMapper ==
    /\ \/ pc = "call" /\ page_ads \in 0..MaxSiteAds /\ total_ads \in 0..MaxSiteAds
       \/ pc = "map" /\ page_ads = 0 /\ total_ads = 0
    /\ confidence = None /\ mappings = <<>>
    /\ ad = NoAd /\ converty_domain = TBSHOPP /\ url = <<>>
    /\ urls = None /\ domain = None /\ result = None
    /\ AnalyzerIdle

CallCalculateConfidence ==
    /\ pc = "call"
    /\ confidence' = CalculateConfidence(page_ads, total_ads)
    /\ pc' = "confidence"
    /\ UNCHANGED <<page_ads, total_ads, mappings, classifyVars, analyzerVars>>

\* lines 48-72: one iteration of the loop over the sites
MapSite ==
    /\ pc = "map"
    /\ Len(mappings) < MaxSites
    /\ \E n \in 0..MaxSiteAds : \E counts \in PageCounts[n, MaxPages - PagesSoFar] :
           mappings' = Append(mappings,
               [total_ads |-> n, fb_pages |-> WithConfidence(counts, n)])
    /\ UNCHANGED <<pc, page_ads, total_ads, confidence, classifyVars, analyzerVars>>

\* lines 77-88
ReturnMapping ==
    /\ pc = "map"
    /\ pc' = "mapped"
    /\ UNCHANGED <<page_ads, total_ads, confidence, mappings, classifyVars, analyzerVars>>

NextMapper == CallCalculateConfidence \/ MapSite \/ ReturnMapping

SpecMapper == InitMapper /\ [][NextMapper]_vars

Rank(c) == CASE c = "low" -> 0 [] c = "medium" -> 1 [] c = "high" -> 2

\* the confidence the thresholds 0.7 and 0.3 give to p ads out of t
Expected(p, t) ==
    IF t = 0 THEN "low"
    ELSE IF p * 10 >= t * 7 THEN "high"
    ELSE IF p * 10 >= t * 3 THEN "medium"
    ELSE "low"

\* C8: _calculate_confidence is low for total_ads = 0, otherwise high from
\* a ratio of 0.7, medium from 0.3 and low below; it is non-decreasing in
\* page_ads / total_ads; every mapped page carries this value for its
\* ads_count and its site's number of ads.
C8_ConfidenceThresholds ==
    /\ pc = "confidence" =>
           /\ confidence = Expected(page_ads, total_ads)
           /\ total_ads = 0 => confidence = "low"
           /\ \A p \in 0..MaxSiteAds, t \in 1..MaxSiteAds :
                  (total_ads > 0 /\ p * total_ads >= page_ads * t)
                      => Rank(CalculateConfidence(p, t)) >= Rank(confidence)
    /\ \A i \in 1..Len(mappings) : \A j \in 1..Len(mappings[i].fb_pages) :
           mappings[i].fb_pages[j].confidence
               = Expected(mappings[i].fb_pages[j].ads_count, mappings[i].total_ads)

\* a returned mapping of a site of 10 ads where one page has 7 of them and
\* another 3, both on a threshold
C8_Witness ==
    /\ pc = "mapped"
    /\ \E i \in 1..Len(mappings) :
           /\ mappings[i].total_ads = 10
           /\ \E j, l \in 1..Len(mappings[i].fb_pages) :
                  /\ mappings[i].fb_pages[j] = [ads_count |-> 7, confidence |-> "high"]
                  /\ mappings[i].fb_pages[l] = [ads_count |-> 3, confidence |-> "medium"]

-----------------------------------------------------------------------------
(* AdAnalyzer *)

TopN == 20

\* a Python dict {domain: count} is the sequence of its items in insertion
\* order

\* line 136 as competitors[competitor_domain] = 1
CountedOnce(comp, d) ==
    IF \E i \in 1..Len(comp) : comp[i].domain = d
    THEN [i \in 1..Len(comp) |->
             IF comp[i].domain = d THEN [domain |-> d, count |-> 1] ELSE comp[i]]
    ELSE Append(comp, [domain |-> d, count |-> 1])

\* line 136: competitors[competitor_domain] = competitors.get(competitor_domain, 0) + 1
Counted(comp, d) ==
    IF \E i \in 1..Len(comp) : comp[i].domain = d
    THEN [i \in 1..Len(comp) |->
             IF comp[i].domain = d THEN [domain |-> d, count |-> comp[i].count + 1]
             ELSE comp[i]]
    ELSE Append(comp, [domain |-> d, count |-> 1])

\* sorted(..., key=lambda x: x[1], reverse=True) one item further: x goes
\* behind every item whose count is not smaller (the sort is stable)
Inserted(sorted, x) ==
    LET n == Cardinality({i \in 1..Len(sorted) : sorted[i].count >= x.count})
    IN  SubSeq(sorted, 1, n) \o <<x>> \o SubSeq(sorted, n + 1, Len(sorted))

RECURSIVE SortedFrom(_, _, _)
SortedFrom(items, i, sorted) ==
    IF i > Len(items) THEN sorted
    ELSE SortedFrom(items, i + 1, Inserted(sorted, items[i]))

\* sorted(d.items(), key=lambda x: x[1], reverse=True)
SortedByCount(items) == SortedFrom(items, 1, <<>>)

\* the locals of _analyze_page before the loop (lines 104-110)
LoopStart ==
    [classified_ads |-> <<>>, converty_count |-> 0, concurrent_count |-> 0,
     unknown_count |-> 0, competitors |-> <<>>]

\* lines 113-138: one iteration of the loop, c being classify_ad's result
LoopStep(st, c) ==
    LET appended == [st EXCEPT !.classified_ads = Append(@, c)]
    IN  IF c.classification = "CONVERTY"
        THEN [appended EXCEPT !.converty_count = @ + 1]
        ELSE IF c.classification = "CONCURRENT"
        THEN [appended EXCEPT
                 !.concurrent_count = @ + 1,
                 !.competitors = IF Truthy(c.competitor_domain)
                                 THEN Counted(@, c.competitor_domain.v) ELSE @]
        ELSE [appended EXCEPT !.unknown_count = @ + 1]

\* lines 141 and 156-171; the two ratios are floats nothing modelled reads
PageAnalysis(page_id, dom, st) ==
    [page_id |-> page_id, converty_domain |-> dom,
     total_ads |-> Len(st.classified_ads),
     converty_ads |-> st.converty_count,
     concurrent_ads |-> st.concurrent_count,
     unknown_ads |-> st.unknown_count,
     competitors |-> SortedByCount(st.competitors),
     classified_ads |-> st.classified_ads]

RECURSIVE AnalyzeFrom(_, _, _, _, _)
AnalyzeFrom(page_id, dom, ads, i, st) ==
    IF i > Len(ads) THEN PageAnalysis(page_id, dom, st)
    ELSE LET c == ClassifyAd(ads[i], dom)
         IN  IF c = Raised THEN Raised
             ELSE AnalyzeFrom(page_id, dom, ads, i + 1, LoopStep(st, c))

\* _analyze_page for a page whose ads are `ads`
AnalyzePage(page_id, dom, ads) == AnalyzeFrom(page_id, dom, ads, 1, LoopStart)

\* lines 175-178 and 183-187; the two ratios are floats nothing modelled reads
CalculateGlobalStats(pas) ==
    [total_ads |-> SumSeq([i \in 1..Len(pas) |-> pas[i].total_ads]),
     converty_ads |-> SumSeq([i \in 1..Len(pas) |-> pas[i].converty_ads]),
     concurrent_ads |-> SumSeq([i \in 1..Len(pas) |-> pas[i].concurrent_ads]),
     unknown_ads |-> SumSeq([i \in 1..Len(pas) |-> pas[i].unknown_ads])]

\* lines 201-204 as all_competitors[domain] = count
MergedOverwriting(all, e) ==
    IF \E i \in 1..Len(all) : all[i].domain = e.domain
    THEN [i \in 1..Len(all) |->
             IF all[i].domain = e.domain THEN e ELSE all[i]]
    ELSE Append(all, e)

\* lines 201-204
Merged(all, e) ==
    IF \E i \in 1..Len(all) : all[i].domain = e.domain
    THEN [i \in 1..Len(all) |->
             IF all[i].domain = e.domain
             THEN [domain |-> e.domain, count |-> all[i].count + e.count]
             ELSE all[i]]
    ELSE Append(all, e)

RECURSIVE MergedFrom(_, _, _)
MergedFrom(entries, i, all) ==
    IF i > Len(entries) THEN all
    ELSE MergedFrom(entries, i + 1, Merged(all, entries[i]))

RECURSIVE Flattened(_)
\* the competitor entries of all pages, in the order lines 196-197 visit them
Flattened(pas) ==
    IF pas = <<>> THEN <<>> ELSE Head(pas).competitors \o Flattened(Tail(pas))

\* _aggregate_competitors
AggregateCompetitors(pas) ==
    LET all_competitors == MergedFrom(Flattened(pas), 1, <<>>)
        sorted == SortedByCount(all_competitors)
    IN  [i \in 1..Len(sorted) |->
            [domain |-> sorted[i].domain, total_ads |-> sorted[i].count]]

\* all_competitors[:20]
FirstTopN(s) == SubSeq(s, 1, IF Len(s) < TopN THEN Len(s) ELSE TopN)

\* lines 52-65
Report(pas) ==
    [pages_analyzed |-> Len(pas),
     global_stats |-> CalculateGlobalStats(pas),
     top_competitors |-> FirstTopN(AggregateCompetitors(pas)),
     page_details |-> pas]

-----------------------------------------------------------------------------
(* Inputs of the analyzer *)

MaxEntries == 2
MaxAds == 3
NumDomains == 22
MaxExtraPages == 2

AdWithLink(u) ==
    [snapshot |-> [k |-> "dict", link_url |-> Str(u), cards |-> Missing,
                   caption |-> Missing, body |-> Missing]]

AdNullCards ==
    [snapshot |-> [k |-> "dict", link_url |-> Str(UrlRival), cards |-> None,
                   caption |-> Missing, body |-> Missing]]

\* the ads get_all_ads_by_page_id returns are drawn from these
PageAds ==
    { AdWithLink(UrlSelf), AdWithLink(UrlRival), AdWithLink(UrlInnerWww),
      AdWithLink(UrlRedirect), AdNullCards }

\* the (site, fb_page) entries of a mapping artifact: the same page may be
\* listed under two sites
EntryValues ==
    { [site |-> TBSHOPP, page_id |-> "p1"],
      [site |-> <<"R","i","v","a","l",".","i","o">>, page_id |-> "p1"] }

MappingArtifacts == SeqsUpTo(EntryValues, MaxEntries)

Digit == <<"0","1","2","3","4","5","6","7","8","9">>

\* the name of the i-th competitor: r1.io, r2.io, ...
CompetitorName(i) ==
    <<"r">> \o (IF i >= 10 THEN <<Digit[(i \div 10) + 1]>> ELSE <<>>)
            \o <<Digit[(i % 10) + 1]>> \o <<".","i","o">>

CompetitorAd(i) == AdWithLink(<<"h","t","t","p","s",":","/","/">> \o CompetitorName(i) \o <<"/","x">>)

\* the sizes of the wide page: none, one, around the cut at TopN, and all
WideSizes == {0, 1, TopN - 1, TopN, NumDomains}

\* a page that advertises each of the first n competitors once
WidePage ==
    [n \in WideSizes |->
        AnalyzePage("wide", TBSHOPP, [i \in 1..n |-> CompetitorAd(i)])]

\* a page with a single ad, of competitor i
SinglePage ==
    [i \in 1..NumDomains |-> AnalyzePage("single", TBSHOPP, <<CompetitorAd(i)>>)]

\* the wide page, then up to MaxExtraPages single-ad pages
AggregateInputs ==
    { <<WidePage[n]>> \o [j \in 1..Len(extra) |-> SinglePage[extra[j]]] :
          n \in WideSizes, extra \in SeqsUpTo(1..NumDomains, MaxExtraPages) }

-----------------------------------------------------------------------------
(* The analyzer's steps *)

loopVars == <<classified_ads, converty_count, concurrent_count, unknown_count,
              competitors>>

AdsSoFar == SumSeq([i \in 1..Len(page_analyses) |-> page_analyses[i].total_ads])

LoopState ==
    [classified_ads |-> classified_ads, converty_count |-> converty_count,
     concurrent_count |-> concurrent_count, unknown_count |-> unknown_count,
     competitors |-> competitors]

SetLoopState(st) ==
    /\ classified_ads' = st.classified_ads
    /\ converty_count' = st.converty_count
    /\ concurrent_count' = st.concurrent_count
    /\ unknown_count' = st.unknown_count
    /\ competitors' = st.competitors

InitAnalyze ==
    /\ pc = "page"
    /\ todo \in MappingArtifacts
    /\ n_entries = Len(todo)
    /\ all_page_ads = <<>> /\ ad_idx = 0
    /\ classified_ads = <<>> /\ converty_count = 0 /\ concurrent_count = 0
    /\ unknown_count = 0 /\ competitors = <<>>
    /\ page_analyses = <<>> /\ report = None
    /\ ad = NoAd /\ converty_domain = TBSHOPP /\ url = <<>>
    /\ urls = None /\ domain = None /\ result = None
    /\ MapperIdle

\* _analyze_page, lines 98-110: the page's ads arrive, the locals are reset
FetchAds ==
    /\ pc = "page" /\ todo # <<>>
    /\ all_page_ads' \in SeqsUpTo(PageAds, MaxAds - AdsSoFar)
    /\ ad_idx' = 0
    /\ SetLoopState(LoopStart)
    /\ pc' = "loop"
    /\ UNCHANGED <<todo, n_entries, page_analyses, report, classifyVars, mapperVars>>

\* _analyze_page, lines 112-138: one iteration; an exception of classify_ad
\* ends the analysis
ClassifyNext ==
    /\ pc = "loop" /\ ad_idx < Len(all_page_ads)
    /\ LET c == ClassifyAd(all_page_ads[ad_idx + 1], Head(todo).site)
       IN  IF c = Raised
           THEN pc' = "failed" /\ UNCHANGED <<ad_idx, loopVars>>
           ELSE /\ SetLoopState(LoopStep(LoopState, c))
                /\ ad_idx' = ad_idx + 1
                /\ pc' = pc
    /\ UNCHANGED <<todo, n_entries, all_page_ads, page_analyses, report,
                   classifyVars, mapperVars>>

\* _analyze_page, lines 141-171, and analyze_client, line 49
ReturnPageAnalysis ==
    /\ pc = "loop" /\ ad_idx = Len(all_page_ads)
    /\ page_analyses' = Append(page_analyses,
           PageAnalysis(Head(todo).page_id, Head(todo).site, LoopState))
    /\ todo' = Tail(todo)
    /\ pc' = "page"
    /\ UNCHANGED <<n_entries, all_page_ads, ad_idx, loopVars, report,
                   classifyVars, mapperVars>>

\* analyze_client, lines 52-72
BuildReport ==
    /\ pc = "page" /\ todo = <<>>
    /\ report' = Report(page_analyses)
    /\ pc' = "done"
    /\ UNCHANGED <<todo, n_entries, all_page_ads, ad_idx, loopVars, page_analyses,
                   classifyVars, mapperVars>>

NextAnalyze == FetchAds \/ ClassifyNext \/ ReturnPageAnalysis \/ BuildReport

SpecAnalyze == InitAnalyze /\ [][NextAnalyze]_vars

\* analyze_client over page analyses that _analyze_page has returned
InitAggregate ==
    /\ pc = "page"
    /\ todo = <<>>
    /\ page_analyses \in AggregateInputs
    /\ n_entries = Len(page_analyses)
    /\ all_page_ads = <<>> /\ ad_idx = 0
    /\ classified_ads = <<>> /\ converty_count = 0 /\ concurrent_count = 0
    /\ unknown_count = 0 /\ competitors = <<>>
    /\ report = None
    /\ ad = NoAd /\ converty_domain = TBSHOPP /\ url = <<>>
    /\ urls = None /\ domain = None /\ result = None
    /\ MapperIdle

SpecAggregate == InitAggregate /\ [][BuildReport]_vars

-----------------------------------------------------------------------------
(* Properties of the analyzer *)

\* C9: top_competitors lists each domain once with its counts summed over
\* all pages, in descending order of the sum, ties in the order the domains
\* first appear in the merge, cut to the first 20; no omitted domain has a
\* strictly larger sum than a listed one.
C9_TopCompetitors ==
    pc = "done" =>
        LET entries == Flattened(page_analyses)
            top == report.top_competitors
            domains == {entries[i].domain : i \in 1..Len(entries)}
            sum == [d \in domains |->
                       Cardinality(UNION {{<<i, n>> : n \in 1..entries[i].count} :
                                   i \in {j \in 1..Len(entries) : entries[j].domain = d}})]
            first == [d \in domains |->
                         Min({i \in 1..Len(entries) : entries[i].domain = d})]
            Before(a, b) == sum[a] > sum[b] \/ (sum[a] = sum[b] /\ first[a] < first[b])
            listed == {top[i].domain : i \in 1..Len(top)}
        IN  /\ Len(top) = IF Cardinality(domains) < 20 THEN Cardinality(domains) ELSE 20
            /\ Len(top) <= 20
            /\ listed \subseteq domains
            /\ \A i \in 1..Len(top) : top[i].total_ads = sum[top[i].domain]
            /\ \A i, j \in 1..Len(top) : i < j => Before(top[i].domain, top[j].domain)
            /\ \A i, j \in 1..Len(top) : i < j => top[i].total_ads >= top[j].total_ads
            /\ \A d \in domains \ listed : \A i \in 1..Len(top) :
                   Before(top[i].domain, d) /\ sum[d] <= top[i].total_ads

\* more than 20 domains were merged, one inserted after the 20th was summed
\* over two pages and is listed, and a domain with a smaller sum is left out
C9_Witness ==
    /\ pc = "done"
    /\ Len(report.top_competitors) = 20
    /\ Len(page_analyses) >= 2
    /\ report.top_competitors[1].domain = CompetitorName(TopN + 1)
    /\ report.top_competitors[1].total_ads = 2
    /\ report.top_competitors[2].total_ads = 1
    /\ \A i \in 1..20 : report.top_competitors[i].domain # CompetitorName(TopN)

RECURSIVE SumCounts(_)
SumCounts(items) ==
    IF items = <<>> THEN 0 ELSE Head(items).count + SumCounts(Tail(items))

\* C10: in _analyze_page the three counts add up to the number of classified
\* ads and the histogram's counts to concurrent_count; a finished page's
\* total_ads is the number of ads returned for it; the report's global counts
\* are the sums of the pages' counts, total_ads is the sum of the three, and
\* pages_analyzed is the number of page entries of the mapping artifact.
C10_CountConservation ==
    /\ pc \in {"loop", "failed"} =>
           /\ converty_count + concurrent_count + unknown_count = Len(classified_ads)
           /\ Len(classified_ads) = ad_idx
           /\ SumCounts(competitors) = concurrent_count
    /\ \A i \in 1..Len(page_analyses) :
           LET p == page_analyses[i]
           IN  /\ p.converty_ads + p.concurrent_ads + p.unknown_ads = p.total_ads
               /\ p.total_ads = Len(p.classified_ads)
               /\ SumCounts(p.competitors) = p.concurrent_ads
               /\ p.concurrent_ads = Cardinality({n \in 1..Len(p.classified_ads) :
                      p.classified_ads[n].classification = "CONCURRENT"})
               /\ p.converty_ads = Cardinality({n \in 1..Len(p.classified_ads) :
                      p.classified_ads[n].classification = "CONVERTY"})
    /\ (pc = "page" /\ page_analyses # <<>>) =>
           page_analyses[Len(page_analyses)].total_ads = Len(all_page_ads)
    /\ pc = "done" =>
           LET g == report.global_stats
               col(f) == SumSeq([i \in 1..Len(report.page_details) |->
                                    report.page_details[i][f]])
           IN  /\ g.total_ads = g.converty_ads + g.concurrent_ads + g.unknown_ads
               /\ g.total_ads = col("total_ads")
               /\ g.converty_ads = col("converty_ads")
               /\ g.concurrent_ads = col("concurrent_ads")
               /\ g.unknown_ads = col("unknown_ads")
               /\ report.pages_analyzed = n_entries
               /\ report.page_details = page_analyses

\* the same page analyzed under two sites and counted twice, one competitor
\* counted twice on a page
C10_Witness ==
    /\ pc = "done"
    /\ report.pages_analyzed = 2
    /\ report.page_details[1].page_id = report.page_details[2].page_id
    /\ report.page_details[1].converty_domain # report.page_details[2].converty_domain
    /\ \E i \in 1..2 : \E n \in 1..Len(report.page_details[i].competitors) :
           report.page_details[i].competitors[n].count = 2
    /\ report.global_stats.total_ads = MaxAds

-----------------------------------------------------------------------------
(* The whole program: any of the calls above *)

Init == InitClassify \/ InitMapper \/ InitAnalyze \/ InitAggregate

Next == NextClassify \/ NextMapper \/ NextAnalyze

Spec == Init /\ [][Next]_vars

=============================================================================
